---- MODULE Spec2Model ----
(***************************************************************************)
(* Model of the Conan recipe ClientServer (conanfile.py).                  *)
(*                                                                         *)
(* The recipe holds no mutable fields of its own: everything a method does *)
(* is a call on a Conan collaborator (cmake_layout, tool_requires,         *)
(* CMakeDeps, CMakeToolchain, CMake).  The state is therefore the ordered  *)
(* log of collaborator calls made so far, together with the generator the  *)
(* active profile makes a freshly constructed CMakeToolchain start with.   *)
(* A Python method runs to completion on one thread, so each recipe method *)
(* is one action.  A collaborator call may raise; the exception leaves the *)
(* method, so the statements after the raising call are not executed.      *)
(***************************************************************************)
EXTENDS Integers, Sequences, FiniteSets

\* Bound on the length of the call log at which a method may still start.
MaxLog == 5

\* Generators a freshly constructed CMakeToolchain can carry, depending on
\* the profile (compiler, os, tools.cmake.cmaketoolchain:generator).
Generators == {"Unix Makefiles", "MinGW Makefiles", "Visual Studio 17 2022", "Ninja"}

VARIABLES
    log,               \* sequence of collaborator calls, oldest first
    profileGenerator   \* generator a new CMakeToolchain(self) starts with

vars == <<log, profileGenerator>>

\* One collaborator call: the callee and the argument that matters.
Call(op, arg) == [op |-> op, arg |-> arg]

\* CMakeToolchain(self): a new toolchain object with the profile's generator.
CMakeToolchain == [generator |-> profileGenerator]

Init ==
    /\ log = <<>>
    /\ profileGenerator \in Generators

\* def layout(self): cmake_layout(self)
layout ==
    /\ Len(log) < MaxLog
    /\ log' = Append(log, Call("cmake_layout", ""))
    /\ UNCHANGED profileGenerator

\* def build_requirements(self): tool_requires(cmake), then test_requires(gtest)
build_requirements ==
    /\ Len(log) < MaxLog
    /\ \E raised \in {"tool_requires", "none"} :
          log' = IF raised = "tool_requires"
                 THEN Append(log, Call("tool_requires", "cmake/4.2.0"))
                 ELSE log \o << Call("tool_requires", "cmake/4.2.0"),
                                Call("test_requires", "gtest/1.17.0") >>
    /\ UNCHANGED profileGenerator

\* def requirements(self): requires(boost)
requirements ==
    /\ Len(log) < MaxLog
    /\ log' = Append(log, Call("requires", "boost/1.90.0"))
    /\ UNCHANGED profileGenerator

\* generate() without the assignment to tc.generator.
generate_keeps_profile_generator ==
    /\ Len(log) < MaxLog
    /\ \E raised \in {"CMakeDeps.generate", "none"} :
          LET tc == CMakeToolchain
          IN  log' = IF raised = "CMakeDeps.generate"
                     THEN Append(log, Call("CMakeDeps.generate", ""))
                     ELSE log \o << Call("CMakeDeps.generate", ""),
                                    Call("CMakeToolchain.generate", tc.generator) >>
    /\ UNCHANGED profileGenerator

\* def generate(self): dp.generate(); tc.generator = "Ninja"; tc.generate()
generate ==
    /\ Len(log) < MaxLog
    /\ \E raised \in {"CMakeDeps.generate", "none"} :
          LET tc0 == CMakeToolchain
              tc  == [tc0 EXCEPT !.generator = "Ninja"]
          IN  log' = IF raised = "CMakeDeps.generate"
                     THEN Append(log, Call("CMakeDeps.generate", ""))
                     ELSE log \o << Call("CMakeDeps.generate", ""),
                                    Call("CMakeToolchain.generate", tc.generator) >>
    /\ UNCHANGED profileGenerator

\* build() with the two CMake calls in the opposite order.
build_before_configure ==
    /\ Len(log) < MaxLog
    /\ \E raised \in {"CMake.build", "none"} :
          log' = IF raised = "CMake.build"
                 THEN Append(log, Call("CMake.build", ""))
                 ELSE log \o << Call("CMake.build", ""),
                                Call("CMake.configure", "") >>
    /\ UNCHANGED profileGenerator

\* def build(self): cmake.configure(); cmake.build()
build ==
    /\ Len(log) < MaxLog
    /\ \E raised \in {"CMake.configure", "none"} :
          log' = IF raised = "CMake.configure"
                 THEN Append(log, Call("CMake.configure", ""))
                 ELSE log \o << Call("CMake.configure", ""),
                                Call("CMake.build", "") >>
    /\ UNCHANGED profileGenerator

\* def package(self): cmake.install()
package ==
    /\ Len(log) < MaxLog
    /\ log' = Append(log, Call("CMake.install", ""))
    /\ UNCHANGED profileGenerator

Next ==
    \/ layout
    \/ build_requirements
    \/ requirements
    \/ generate
    \/ build
    \/ package

Spec == Init /\ [][Next]_vars

----------------------------------------------------------------------------
\* Position i of the log holds a call to op.
IsCall(i, op) == i \in 1..Len(log) /\ log[i].op = op

\* C10: every cmake.build() call is immediately preceded by the
\* cmake.configure() call of the same build() run; every toolchain
\* generate() call is immediately preceded by the CMakeDeps generate() call
\* of the same generate() run and is made with generator "Ninja", whatever
\* generator the profile gave the toolchain.
C10_ConfigureBeforeBuild_NinjaToolchain ==
    \A i \in 1..Len(log) :
        /\ IsCall(i, "CMake.build") => IsCall(i - 1, "CMake.configure")
        /\ IsCall(i, "CMakeToolchain.generate") =>
              /\ IsCall(i - 1, "CMakeDeps.generate")
              /\ log[i].arg = "Ninja"

\* C10 witness: under a profile whose own generator is not Ninja, both a
\* complete generate() run and a complete build() run have happened.
C10_Witness ==
    /\ profileGenerator # "Ninja"
    /\ \E i \in 1..Len(log) : IsCall(i, "CMakeToolchain.generate")
    /\ \E i \in 1..Len(log) : IsCall(i, "CMake.build")

====
